---- MODULE Spec2Model ----
(***************************************************************************)
(* The in-app-purchase facade of templates/wortal-api/WortalIAP.ts.        *)
(*                                                                         *)
(* Every exported function is one expression,                              *)
(*     return (window as any).Wortal.iap.<method>(<args>);                 *)
(* so a call (1) reads the global window.Wortal and its property iap,      *)
(* which throws a TypeError when the global is undefined, (2) invokes the  *)
(* identically named method of that external object once with the         *)
(* caller's arguments, and (3) returns whatever the method returned: for   *)
(* the four ...Async functions the very promise object the platform        *)
(* created, with no .then/.catch attached.                                 *)
(*                                                                         *)
(* The external object is not part of the repository. It is modelled here  *)
(* from the doc comments of the file: a platform that owns the player's    *)
(* inventory of unconsumed purchases and settles each promise it handed    *)
(* out, either resolving it as documented or rejecting it with one of the  *)
(* documented error codes.                                                 *)
(***************************************************************************)
EXTENDS Naturals, Sequences, FiniteSets, TLC

VARIABLES
    Wortal,     \* the global window.Wortal: undefined until the SDK installs it
    inventory,  \* platform: the player's purchases not yet consumed
    issued,     \* platform: every purchase the platform ever completed
    confirmed,  \* history: tokens whose consumePurchaseAsync promise the game saw resolve
    calls,      \* facade invocations whose promise or external promise is unsettled
    done        \* facade invocations that completed in the latest step

vars == <<Wortal, inventory, issued, confirmed, calls, done>>

(***************************************************************************)
(* Bounds and input sets                                                   *)
(***************************************************************************)
\* Number of facade calls that may be in flight at the same time.
MaxPending == 2

Slots == 1..MaxPending

\* The product the game of the model buys.
Products == {"p1"}

\* PurchaseConfig: productID, and optionally developerPayload.
PurchaseConfig ==
    {[productID |-> p] : p \in Products}
        \cup {[productID |-> p, developerPayload |-> "dp"] : p \in Products}

\* Tokens the platform issues, in this order.
TokenSeq == <<"t1", "t2">>

\* Tokens the game passes to consumePurchaseAsync, issued yet or not.
TokenArgs == {"t1", "t2"}

\* The error codes the doc comments list under @throws.
ErrorMessage ==
    {"NOT_SUPPORTED", "CLIENT_UNSUPPORTED_OPERATION", "PAYMENTS_NOT_INITIALIZED",
     "INVALID_PARAM", "NETWORK_FAILURE", "INVALID_OPERATION", "USER_INPUT"}

AsyncOps ==
    {"getCatalogAsync", "getPurchasesAsync", "makePurchaseAsync", "consumePurchaseAsync"}

\* Product entries the platform reports where purchasing is supported.
Catalog ==
    << [productID |-> "p1", title |-> "Gems", price |-> "$1", priceCurrencyCode |-> "USD"],
       [productID |-> "p2", title |-> "Coins", price |-> "$2", priceCurrencyCode |-> "USD"] >>

(***************************************************************************)
(* Values                                                                  *)
(***************************************************************************)
Undefined == [loaded |-> FALSE]

\* window.Wortal once the SDK script has run: an object with the property iap.
Installed == [loaded |-> TRUE]

NoArg == [none |-> TRUE]

TokenArg(t) == [token |-> t]

Void == [void |-> TRUE]

Idle == [op |-> "idle"]

\* States of a promise, of a synchronous return, and of a call never made.
Pending == [state |-> "pending"]

Resolved(v) == [state |-> "resolved", value |-> v]

Rejected(e) == [state |-> "rejected", error |-> e]

Returned(v) == [state |-> "returned", value |-> v]

Threw == [state |-> "threw", error |-> "TypeError"]

NotCalled == [state |-> "none"]

\* A Purchase as the platform builds it from the configuration it was given.
Purchase(config, token) ==
    IF "developerPayload" \in DOMAIN config
    THEN [productID |-> config.productID, purchaseToken |-> token,
          developerPayload |-> config.developerPayload]
    ELSE [productID |-> config.productID, purchaseToken |-> token]

\* One invocation of a method of the external object.
Invoke(op, arg) == [op |-> op, arg |-> arg]

(***************************************************************************)
(* The record of one facade invocation.                                    *)
(*   id      the slot of the invocation, which is also the identity of the *)
(*           promise its external invocation creates                       *)
(*   op,arg  the exported function called and its argument                 *)
(*   ext     the external invocations the function made, in order          *)
(*   ret     the identity of the promise the function returned             *)
(*   extOut  the state of the promise created by this call's external call *)
(*   out     the state of the promise returned to the caller               *)
(***************************************************************************)
\* Evaluating (window as any).Wortal.iap with Wortal undefined throws before any call.
Thrown(k, op, arg) ==
    [id |-> k, op |-> op, arg |-> arg, ext |-> <<>>, ret |-> 0,
     extOut |-> NotCalled, out |-> Threw]

\* return Wortal.iap.<op>(<arg>): one external call, its promise handed back as is.
Forwarded(k, op, arg) ==
    [id |-> k, op |-> op, arg |-> arg, ext |-> <<Invoke(op, arg)>>, ret |-> k,
     extOut |-> Pending, out |-> Pending]

(***************************************************************************)
(* The exported functions                                                  *)
(***************************************************************************)
\* export function isEnabled(): boolean
\*     return (window as any).Wortal.iap.isEnabled();
\* Variant: the flag left hard-wired, return true.
isEnabledHardWired(reported) ==
    IF Wortal = Undefined
    THEN Thrown(0, "isEnabled", NoArg)
    ELSE [id |-> 0, op |-> "isEnabled", arg |-> NoArg,
          ext |-> <<Invoke("isEnabled", NoArg)>>, ret |-> 0,
          extOut |-> Returned(reported), out |-> Returned(TRUE)]

\* Variant: if (!Wortal.iap.isEnabled()) throw NOT_SUPPORTED.
isEnabledStrict(reported) ==
    IF Wortal = Undefined
    THEN Thrown(0, "isEnabled", NoArg)
    ELSE [id |-> 0, op |-> "isEnabled", arg |-> NoArg,
          ext |-> <<Invoke("isEnabled", NoArg)>>, ret |-> 0,
          extOut |-> Returned(reported),
          out |-> IF reported THEN Returned(TRUE)
                  ELSE [state |-> "threw", error |-> "NOT_SUPPORTED"]]

\* reported: what Wortal.iap.isEnabled() returns to the facade in this call.
isEnabled(reported) ==
    IF Wortal = Undefined
    THEN Thrown(0, "isEnabled", NoArg)
    ELSE [id |-> 0, op |-> "isEnabled", arg |-> NoArg,
          ext |-> <<Invoke("isEnabled", NoArg)>>, ret |-> 0,
          extOut |-> Returned(reported), out |-> Returned(reported)]

\* Variant: the body pasted from the next function, Wortal.iap.getPurchasesAsync().
getCatalogAsyncPasted(k) ==
    IF Wortal = Undefined
    THEN Thrown(k, "getCatalogAsync", NoArg)
    ELSE [Forwarded(k, "getCatalogAsync", NoArg)
            EXCEPT !.ext = <<Invoke("getPurchasesAsync", NoArg)>>]

\* export function getCatalogAsync(): Promise<Product[]>
\*     return (window as any).Wortal.iap.getCatalogAsync();
getCatalogAsync(k) ==
    IF Wortal = Undefined
    THEN Thrown(k, "getCatalogAsync", NoArg)
    ELSE Forwarded(k, "getCatalogAsync", NoArg)

\* Variant: the external method called twice, the second promise returned.
getPurchasesAsyncTwice(k) ==
    IF Wortal = Undefined
    THEN Thrown(k, "getPurchasesAsync", NoArg)
    ELSE [Forwarded(k, "getPurchasesAsync", NoArg)
            EXCEPT !.ext = <<Invoke("getPurchasesAsync", NoArg),
                             Invoke("getPurchasesAsync", NoArg)>>]

\* export function getPurchasesAsync(): Promise<Purchase[]>
\*     return (window as any).Wortal.iap.getPurchasesAsync();
getPurchasesAsync(k) ==
    IF Wortal = Undefined
    THEN Thrown(k, "getPurchasesAsync", NoArg)
    ELSE Forwarded(k, "getPurchasesAsync", NoArg)

\* Variant: only the product identifier forwarded, {productID: purchase.productID}.
makePurchaseAsyncDropsPayload(k, purchase) ==
    IF Wortal = Undefined
    THEN Thrown(k, "makePurchaseAsync", purchase)
    ELSE [Forwarded(k, "makePurchaseAsync", purchase)
            EXCEPT !.ext = <<Invoke("makePurchaseAsync",
                                    [productID |-> purchase.productID])>>]

\* Variant: while a purchase is in flight, its promise is handed to the next caller
\* and no further external call is made.
makePurchaseAsyncCoalesced(k, purchase) ==
    LET inFlight == {j \in Slots : /\ calls[j] # Idle
                                    /\ calls[j].op = "makePurchaseAsync"
                                    /\ calls[j].out = Pending}
    IN  IF Wortal = Undefined
        THEN Thrown(k, "makePurchaseAsync", purchase)
        ELSE IF inFlight = {}
             THEN Forwarded(k, "makePurchaseAsync", purchase)
             ELSE [Forwarded(k, "makePurchaseAsync", purchase)
                     EXCEPT !.ext = <<>>, !.extOut = NotCalled,
                            !.ret = CHOOSE j \in inFlight : TRUE]

\* export function makePurchaseAsync(purchase: PurchaseConfig): Promise<Purchase>
\*     return (window as any).Wortal.iap.makePurchaseAsync(purchase);
makePurchaseAsync(k, purchase) ==
    IF Wortal = Undefined
    THEN Thrown(k, "makePurchaseAsync", purchase)
    ELSE Forwarded(k, "makePurchaseAsync", purchase)

\* Variant: the return dropped, so the caller gets a promise that is resolved
\* whatever becomes of the external call.
consumePurchaseAsyncDetached(k, token) ==
    IF Wortal = Undefined
    THEN Thrown(k, "consumePurchaseAsync", TokenArg(token))
    ELSE [Forwarded(k, "consumePurchaseAsync", TokenArg(token))
            EXCEPT !.ret = 0, !.out = Resolved(Void)]

\* Variant: a fixed token forwarded instead of the parameter.
consumePurchaseAsyncFixedToken(k, token) ==
    IF Wortal = Undefined
    THEN Thrown(k, "consumePurchaseAsync", TokenArg(token))
    ELSE [Forwarded(k, "consumePurchaseAsync", TokenArg(token))
            EXCEPT !.ext = <<Invoke("consumePurchaseAsync", TokenArg(TokenSeq[1]))>>]

\* export function consumePurchaseAsync(token: string): Promise<void>
\*     return (window as any).Wortal.iap.consumePurchaseAsync(token);
consumePurchaseAsync(k, token) ==
    IF Wortal = Undefined
    THEN Thrown(k, "consumePurchaseAsync", TokenArg(token))
    ELSE Forwarded(k, "consumePurchaseAsync", TokenArg(token))

(***************************************************************************)
(* Bookkeeping shared by the actions                                       *)
(***************************************************************************)
Live == {calls[k] : k \in {i \in Slots : calls[i] # Idle}}

\* Every facade invocation the state still records.
Records == Live \cup done

FreeSlots == {k \in Slots : calls[k] = Idle}

\* The slot a new invocation takes: the lowest idle one.
FreeSlot == CHOOSE k \in FreeSlots : \A j \in FreeSlots : k <= j

\* Tokens of consumePurchaseAsync promises that are resolved in the given records.
ResolvedConsumes(rs) ==
    {r.arg.token : r \in {c \in rs : c.op = "consumePurchaseAsync"
                                      /\ c.out.state = "resolved"}}

\* The game calls an exported function and gets r back (or the exception r.out).
Begin(r) ==
    /\ IF r.out.state \in {"threw", "returned"}
       THEN /\ calls' = calls
            /\ done' = {r}
       ELSE /\ calls' = [calls EXCEPT ![r.id] = r]
            /\ done' = {}
    /\ confirmed' = confirmed \cup ResolvedConsumes({r})
    /\ UNCHANGED <<Wortal, inventory, issued>>

\* The promise created by the external call of slot j settles as o. The promise a
\* facade call returned settles with the promise it is: slot c.ret. A call whose
\* two promises are both settled leaves calls and is reported in done.
Settle(j, o) ==
    LET upd == [k \in Slots |->
                  IF calls[k] = Idle THEN Idle
                  ELSE [calls[k] EXCEPT
                          !.extOut = IF k = j THEN o ELSE @,
                          !.out = IF @ = Pending /\ calls[k].ret = j THEN o ELSE @]]
        finished == {k \in Slots : /\ upd[k] # Idle
                                   /\ upd[k].extOut # Pending
                                   /\ upd[k].out # Pending}
    IN  /\ calls' = [k \in Slots |-> IF k \in finished THEN Idle ELSE upd[k]]
        /\ done' = {upd[k] : k \in finished}
        /\ confirmed' = confirmed \cup ResolvedConsumes({upd[k] : k \in finished})

\* Slot j holds a pending promise made by the external method op (the promise of
\* the call's latest external invocation).
PendingExt(j, op) ==
    /\ calls[j] # Idle
    /\ calls[j].extOut = Pending
    /\ calls[j].ext # <<>>
    /\ calls[j].ext[Len(calls[j].ext)].op = op

(***************************************************************************)
(* The game: calls of the exported functions                               *)
(***************************************************************************)
IsEnabled == \E reported \in BOOLEAN : Begin(isEnabled(reported))

GetCatalog == FreeSlots # {} /\ Begin(getCatalogAsync(FreeSlot))

GetPurchases == FreeSlots # {} /\ Begin(getPurchasesAsync(FreeSlot))

MakePurchase ==
    /\ FreeSlots # {}
    /\ \E purchase \in PurchaseConfig : Begin(makePurchaseAsync(FreeSlot, purchase))

ConsumePurchase ==
    /\ FreeSlots # {}
    /\ \E token \in TokenArgs : Begin(consumePurchaseAsync(FreeSlot, token))

(***************************************************************************)
(* The environment: the SDK script and the platform behind Wortal.iap      *)
(***************************************************************************)
\* The SDK script runs and installs window.Wortal.
LoadSDK ==
    /\ Wortal = Undefined
    /\ Wortal' = Installed
    /\ done' = {}
    /\ UNCHANGED <<inventory, issued, confirmed, calls>>

HeldTokens == {p.purchaseToken : p \in inventory}

\* A product is purchasable while the player holds no unconsumed purchase of it.
Available(productID) == \A p \in inventory : p.productID # productID

\* Wortal.iap.getCatalogAsync resolves: the product list, empty where purchases are
\* not supported in the player's region.
ExtGetCatalogResolve ==
    \E j \in Slots :
        /\ PendingExt(j, "getCatalogAsync")
        /\ \E regionSupported \in BOOLEAN :
              Settle(j, Resolved([products |-> IF regionSupported THEN Catalog ELSE <<>>]))
        /\ UNCHANGED <<Wortal, inventory, issued>>

\* Wortal.iap.getPurchasesAsync resolves: the purchases not yet consumed.
ExtGetPurchasesResolve ==
    \E j \in Slots :
        /\ PendingExt(j, "getPurchasesAsync")
        /\ Settle(j, Resolved([purchases |-> inventory]))
        /\ UNCHANGED <<Wortal, inventory, issued>>

\* Wortal.iap.makePurchaseAsync resolves: the product is purchased and the new
\* purchase, with a token never issued before, joins the inventory.
ExtMakePurchaseResolve ==
    \E j \in Slots :
        /\ PendingExt(j, "makePurchaseAsync")
        /\ Cardinality(issued) < Len(TokenSeq)
        /\ LET config == calls[j].ext[Len(calls[j].ext)].arg
               bought == Purchase(config, TokenSeq[Cardinality(issued) + 1])
           IN  /\ Available(config.productID)
               /\ inventory' = inventory \cup {bought}
               /\ issued' = issued \cup {bought}
               /\ Settle(j, Resolved(bought))
        /\ UNCHANGED Wortal

\* Wortal.iap.consumePurchaseAsync resolves: the purchase with that token is
\* consumed and leaves the inventory.
ExtConsumePurchaseResolve ==
    \E j \in Slots :
        /\ PendingExt(j, "consumePurchaseAsync")
        /\ LET token == calls[j].ext[Len(calls[j].ext)].arg.token
           IN  /\ token \in HeldTokens
               /\ inventory' = {p \in inventory : p.purchaseToken # token}
               /\ Settle(j, Resolved(Void))
        /\ UNCHANGED <<Wortal, issued>>

\* Any external call may instead reject, with any of the error codes.
ExtReject ==
    \E j \in Slots, e \in ErrorMessage :
        /\ \E op \in AsyncOps : PendingExt(j, op)
        /\ Settle(j, Rejected(e))
        /\ UNCHANGED <<Wortal, inventory, issued>>

(***************************************************************************)
(* Specification                                                           *)
(***************************************************************************)
Init ==
    /\ Wortal = Undefined
    /\ inventory = {}
    /\ issued = {}
    /\ confirmed = {}
    /\ calls = [k \in Slots |-> Idle]
    /\ done = {}

Next ==
    \/ LoadSDK
    \/ IsEnabled
    \/ GetCatalog
    \/ GetPurchases
    \/ MakePurchase
    \/ ConsumePurchase
    \/ ExtGetCatalogResolve
    \/ ExtGetPurchasesResolve
    \/ ExtMakePurchaseResolve
    \/ ExtConsumePurchaseResolve
    \/ ExtReject

Spec == Init /\ [][Next]_vars

(***************************************************************************)
(* Properties                                                              *)
(***************************************************************************)
\* C1: whenever the external call of a getCatalogAsync, getPurchasesAsync,
\* makePurchaseAsync or consumePurchaseAsync invocation rejects with error code e
\* (any of the seven documented codes), the promise the facade returned is rejected
\* with the same e: it is neither pending, nor resolved, nor rejected with another code.
C1_RejectionPropagates ==
    \A c \in Records :
        (c.op \in AsyncOps /\ c.extOut.state = "rejected") =>
            /\ c.extOut.error \in ErrorMessage
            /\ c.out = c.extOut

\* A makePurchaseAsync call whose external call rejected with USER_INPUT has completed.
C1_Witness ==
    \E c \in done :
        /\ c.op = "makePurchaseAsync"
        /\ c.extOut = Rejected("USER_INPUT")
        /\ c.out = Rejected("USER_INPUT")

\* C2: makePurchaseAsync(c) makes the external makePurchaseAsync call with the
\* identical configuration c, with or without developerPayload, and the promise it
\* returns is at every moment in the state of the external promise: pending with it,
\* resolved with the same Purchase, rejected with the same error.
C2_MakePurchaseForwards ==
    \A c \in Records :
        (c.op = "makePurchaseAsync" /\ c.out # Threw) =>
            /\ c.ext = <<Invoke("makePurchaseAsync", c.arg)>>
            /\ c.out = c.extOut

\* A purchase made with a developerPayload has resolved with the platform's Purchase.
C2_Witness ==
    \E c \in done :
        /\ c.op = "makePurchaseAsync"
        /\ "developerPayload" \in DOMAIN c.arg
        /\ c.extOut.state = "resolved"
        /\ c.out.state = "resolved"
        /\ c.out.value \in inventory
        /\ c.out.value.developerPayload = c.arg.developerPayload

\* C3: consumePurchaseAsync(t) makes the external consumePurchaseAsync call with the
\* literal token t, and the promise it returns is resolved only once the external
\* promise is resolved: never while that one is pending or after it rejected.
C3_ConsumeResolvesAfterExternal ==
    \A c \in Records :
        (c.op = "consumePurchaseAsync" /\ c.out # Threw) =>
            /\ c.ext = <<Invoke("consumePurchaseAsync", c.arg)>>
            /\ (c.out.state = "resolved" => c.extOut.state = "resolved")

\* A consumePurchaseAsync call has resolved, while another one is still pending.
C3_Witness ==
    /\ \E c \in done :
          /\ c.op = "consumePurchaseAsync"
          /\ c.extOut = Resolved(Void)
          /\ c.out = Resolved(Void)
    /\ \E c \in Live :
          /\ c.op = "consumePurchaseAsync"
          /\ c.extOut = Pending
          /\ c.out = Pending

\* C4: getCatalogAsync() makes the external getCatalogAsync call and resolves with
\* exactly the product list the platform resolved it with; when the platform reports
\* the empty list (purchases unsupported in the region) the facade promise is
\* resolved with the empty list, not rejected.
C4_CatalogPassedThrough ==
    \A c \in Records :
        (c.op = "getCatalogAsync" /\ c.out # Threw) =>
            /\ c.ext = <<Invoke("getCatalogAsync", NoArg)>>
            /\ (c.extOut.state = "resolved" => c.out = c.extOut)
            /\ (c.out.state = "resolved" => c.out = c.extOut)

\* getCatalogAsync has resolved with the empty list.
C4_Witness ==
    \E c \in done :
        /\ c.op = "getCatalogAsync"
        /\ c.extOut = Resolved([products |-> <<>>])
        /\ c.out = Resolved([products |-> <<>>])

\* C5: a call of isEnabled() that returns, returns exactly the boolean the external
\* isEnabled() reported, and the call changes nothing: the global, the inventory of
\* unconsumed purchases, the purchases completed and consumed, and the calls in
\* flight are as before.
C5_IsEnabledPure ==
    [][\A r \in done' :
          r.op = "isEnabled" =>
             /\ (r.out.state = "returned" => r.out = r.extOut)
             /\ UNCHANGED <<Wortal, inventory, issued, confirmed, calls>>]_vars

\* isEnabled() has returned false while the platform holds an unconsumed purchase
\* and a call is in flight.
C5_Witness ==
    /\ \E r \in done :
          /\ r.op = "isEnabled"
          /\ r.extOut = Returned(FALSE)
          /\ r.out = Returned(FALSE)
    /\ inventory # {}
    /\ Live # {}

\* C6 as stated: in every reachable state a call of isEnabled() returns a boolean
\* and never ends in an error.
C6_AlwaysReturnsBoolean ==
    \A r \in done :
        r.op = "isEnabled" => (r.out.state = "returned" /\ r.out.value \in BOOLEAN)

\* C6 amended: once window.Wortal is installed a call of isEnabled() returns a
\* boolean and never ends in an error; while the global is undefined the call
\* throws a TypeError.
C6_ReturnsBooleanOnceInstalled ==
    \A r \in done :
        r.op = "isEnabled" =>
            IF Wortal = Undefined
            THEN r.out = Threw
            ELSE r.out.state = "returned" /\ r.out.value \in BOOLEAN

\* With the SDK installed, isEnabled() has returned false.
C6_Witness ==
    /\ Wortal = Installed
    /\ \E r \in done : r.op = "isEnabled" /\ r.out = Returned(FALSE)

\* C7: a token whose consumePurchaseAsync promise the game saw resolve is not in the
\* inventory of unconsumed purchases, then or later; every getPurchasesAsync result
\* holds only purchases that were made and are not consumed, so none with such a
\* token; and when consumePurchaseAsync(t) resolves, the product of the purchase
\* with token t is purchasable again.
C7_ConsumedLeavesInventory ==
    /\ \A t \in confirmed : t \notin HeldTokens
    /\ \A c \in done :
          (c.op = "getPurchasesAsync" /\ c.out.state = "resolved") =>
              /\ c.out.value.purchases \subseteq issued
              /\ c.out.value.purchases \subseteq inventory
              /\ \A p \in c.out.value.purchases : p.purchaseToken \notin confirmed
    /\ \A c \in done :
          (c.op = "consumePurchaseAsync" /\ c.out.state = "resolved") =>
              \A p \in issued :
                  p.purchaseToken = c.arg.token => Available(p.productID)

\* After the first purchase was consumed the product was bought again, and
\* getPurchasesAsync has resolved with the second purchase only.
C7_Witness ==
    /\ confirmed = {TokenSeq[1]}
    /\ \E c \in done :
          /\ c.op = "getPurchasesAsync"
          /\ c.out.state = "resolved"
          /\ {p.purchaseToken : p \in c.out.value.purchases} = {TokenSeq[2]}

\* C9: every makePurchaseAsync and consumePurchaseAsync invocation, whatever else is
\* in flight, has made its own external call at once and returned the promise of
\* that call, so its promise is at every moment in the state of its own external
\* promise and of no other.
C9_CallsIndependent ==
    \A c \in Records :
        (c.op \in {"makePurchaseAsync", "consumePurchaseAsync"} /\ c.out # Threw) =>
            /\ Len(c.ext) = 1
            /\ c.ret = c.id
            /\ c.out = c.extOut

\* Of a purchase and a consumption in flight together, the one started later has
\* settled while the one started first is still pending.
C9_Witness ==
    \E c \in done, d \in Live :
        /\ {c.op, d.op} = {"makePurchaseAsync", "consumePurchaseAsync"}
        /\ c.id > d.id
        /\ c.out.state \in {"resolved", "rejected"}
        /\ d.out = Pending

\* C10 as stated: every facade invocation has made exactly one external call, to the
\* operation of its own name, also after that call rejected.
C10_ExactlyOneExternalCall ==
    \A c \in Records :
        /\ Len(c.ext) = 1
        /\ c.ext[1].op = c.op

\* C10 amended: a facade invocation made once window.Wortal is installed has made
\* exactly one external call, to the operation of its own name, also after that call
\* rejected (no retry); an invocation made while the global is undefined throws a
\* TypeError and has made none.
C10_OneExternalCallOnceInstalled ==
    \A c \in Records :
        IF c.out = Threw
        THEN c.ext = <<>> /\ Wortal = Undefined
        ELSE /\ Wortal = Installed
             /\ Len(c.ext) = 1
             /\ c.ext[1].op = c.op

\* A getPurchasesAsync call has been rejected, having made one external call.
C10_Witness ==
    \E c \in done :
        /\ c.op = "getPurchasesAsync"
        /\ c.out.state = "rejected"
        /\ c.ext = <<Invoke("getPurchasesAsync", NoArg)>>

====
